---- MODULE Spec2Model ----
(***************************************************************************)
(* Model of imbalance_screener.py: a Streamlit script that is re-executed  *)
(* from its first line on every refresh tick.  One run reads the secrets,  *)
(* obtains an access token, renders the widgets, and, when a client could  *)
(* be built, checks each symbol of the list and displays the matches.      *)
(*                                                                         *)
(* Numbers: prices and volumes are naturals; a cell that pd.to_numeric     *)
(* coerces to a missing value is NaN.  A mean is kept as the exact pair    *)
(* (sum, n) of its non-missing terms, so comparisons with it are exact.    *)
(* A value rounded to two decimals is kept as an integer count of          *)
(* hundredths.                                                             *)
(***************************************************************************)
EXTENDS Integers, Sequences, FiniteSets, Bags, TLC

\* ------------------------------------------------------------ bounds ----
MaxLen == 7          \* longest candle series drawn for the evaluator
MaxPriorClose == 1   \* largest close of a candle before the last one
MaxLastClose == 1    \* largest close of the last candle
MaxLastVol == 4      \* largest volume of the last candle, in VolUnit
MaxMult == 4         \* largest multiplier drawn (the slider allows up to 30)
MaxStrLen == 5       \* longest text-area input drawn for the parser
MaxTicks == 2        \* refresh ticks (script runs) explored

\* ------------------------------------------------- program constants ----
MinRows == 6              \* len(df) < 6
Crore == 10000000         \* 1e7
MultMin == 3              \* st.slider(..., 3, 30, 10)
MultMax == 30
MultRange == MultMin..(IF MaxMult < MultMax THEN MaxMult ELSE MultMax)
NaN == -1                 \* missing value produced by errors='coerce'
VolUnit == 50000          \* volumes are drawn in multiples of this

None == "None"
Truthy(x) == x # None /\ x # ""

\* ------------------------------------------------------- arithmetic ----
IsNaN(x) == x = NaN

\* close * volume on two cells; a missing operand gives a missing product
Mul(a, b) == IF IsNaN(a) \/ IsNaN(b) THEN NaN ELSE a * b

\* round-half-even of n / d for d > 0
RoundHalfEvenNat(n, d) ==
  LET q == n \div d
      r == n % d
  IN  IF 2 * r < d THEN q
      ELSE IF 2 * r > d THEN q + 1
      ELSE IF q % 2 = 0 THEN q ELSE q + 1

RoundHalfEven(n, d) ==
  IF n >= 0 THEN RoundHalfEvenNat(n, d) ELSE 0 - RoundHalfEvenNat(0 - n, d)

\* round(x / 1e7, 2) for x = num / den, in hundredths
round_crore(num, den) == RoundHalfEven(num * 100, den * Crore)

\* df['value'] = df['close'] * df['volume']
value_column(df) == [i \in 1..Len(df) |-> Mul(df[i].close, df[i].volume)]

RECURSIVE SumSkipNa(_)
SumSkipNa(vals) ==
  IF vals = <<>> THEN [sum |-> 0, n |-> 0]
  ELSE LET rest == SumSkipNa(Tail(vals))
       IN  IF IsNaN(Head(vals)) THEN rest
           ELSE [sum |-> rest.sum + Head(vals), n |-> rest.n + 1]

\* Series.mean(): missing terms are skipped; the mean of no terms is missing
mean(vals) == SumSkipNa(vals)

\* pd.isna(avg_val)
MeanIsNa(m) == m.n = 0

\* the zero test left out
MeanIsZero_never(m) == FALSE

\* avg_val == 0
MeanIsZero(m) == m.n > 0 /\ m.sum = 0

\* the comparison written with >= instead of >
GreaterOrEqualTimes(last, multiplier, m) ==
  ~IsNaN(last) /\ m.n > 0 /\ last * m.n >= multiplier * m.sum

\* last_val > multiplier * avg_val; a comparison with a missing value is false
GreaterThanTimes(last, multiplier, m) ==
  ~IsNaN(last) /\ m.n > 0 /\ last * m.n > multiplier * m.sum

\* (c1 - c0) / c0 * 100 rounded to 2 decimals, on numpy scalars: a zero
\* divisor gives inf or nan, never an exception
pct_move(c1, c0) ==
  IF IsNaN(c1) \/ IsNaN(c0) THEN [kind |-> "nan", v |-> 0]
  ELSE IF c0 = 0 THEN (IF c1 = 0 THEN [kind |-> "nan", v |-> 0]
                                 ELSE [kind |-> "inf", v |-> 0])
  ELSE [kind |-> "num", v |-> RoundHalfEven((c1 - c0) * 10000, c0)]

\* --------------------------------------------------------- responses ----
\* What fyers_client.history(data) does: raise, return a falsy response,
\* return a response without 'candles', return candles that do not fit the
\* six columns, or return a well-formed candle list.
FailKinds == {"raise", "falsy", "nokey", "malformed"}
Fail(k) == [kind |-> k, candles |-> <<>>]
Ok(cs) == [kind |-> "ok", candles |-> cs]

NoResult == [kind |-> "None"]
EmptyFrame == <<>>

\* get_1min_candles with a retry after a raised history call
get_1min_candles_retry(symbol, fyers_client, resp) ==
  IF fyers_client = None
    THEN [df |-> EmptyFrame, calls |-> 0, notice |-> FALSE, raised |-> FALSE]
  ELSE IF resp.kind = "raise"
    THEN [df |-> EmptyFrame, calls |-> 2, notice |-> TRUE, raised |-> FALSE]
  ELSE IF resp.kind \in {"falsy", "nokey"}
    THEN [df |-> EmptyFrame, calls |-> 1, notice |-> FALSE, raised |-> FALSE]
  ELSE IF resp.kind = "malformed"
    THEN [df |-> EmptyFrame, calls |-> 1, notice |-> TRUE, raised |-> FALSE]
  ELSE [df |-> resp.candles, calls |-> 1, notice |-> FALSE, raised |-> FALSE]

\* get_1min_candles with the try block around the history call only
get_1min_candles_narrowtry(symbol, fyers_client, resp) ==
  IF fyers_client = None
    THEN [df |-> EmptyFrame, calls |-> 0, notice |-> FALSE, raised |-> FALSE]
  ELSE IF resp.kind = "raise"
    THEN [df |-> EmptyFrame, calls |-> 1, notice |-> TRUE, raised |-> FALSE]
  ELSE IF resp.kind \in {"falsy", "nokey"}
    THEN [df |-> EmptyFrame, calls |-> 1, notice |-> FALSE, raised |-> FALSE]
  ELSE IF resp.kind = "malformed"
    THEN [df |-> EmptyFrame, calls |-> 1, notice |-> FALSE, raised |-> TRUE]
  ELSE [df |-> resp.candles, calls |-> 1, notice |-> FALSE, raised |-> FALSE]

\* get_1min_candles without the except clause
get_1min_candles_noexcept(symbol, fyers_client, resp) ==
  IF fyers_client = None
    THEN [df |-> EmptyFrame, calls |-> 0, notice |-> FALSE, raised |-> FALSE]
  ELSE IF resp.kind \in {"raise", "malformed"}
    THEN [df |-> EmptyFrame, calls |-> 1, notice |-> FALSE, raised |-> TRUE]
  ELSE IF resp.kind \in {"falsy", "nokey"}
    THEN [df |-> EmptyFrame, calls |-> 1, notice |-> FALSE, raised |-> FALSE]
  ELSE [df |-> resp.candles, calls |-> 1, notice |-> FALSE, raised |-> FALSE]

\* get_1min_candles: df is the returned frame, calls the number of history
\* requests issued, notice whether st.write reported an error, raised whether
\* an exception leaves the function
get_1min_candles(symbol, fyers_client, resp) ==
  IF fyers_client = None
    THEN [df |-> EmptyFrame, calls |-> 0, notice |-> FALSE, raised |-> FALSE]
  ELSE IF resp.kind = "raise"
    THEN [df |-> EmptyFrame, calls |-> 1, notice |-> TRUE, raised |-> FALSE]
  ELSE IF resp.kind \in {"falsy", "nokey"}
    THEN [df |-> EmptyFrame, calls |-> 1, notice |-> FALSE, raised |-> FALSE]
  ELSE IF resp.kind = "malformed"
    THEN [df |-> EmptyFrame, calls |-> 1, notice |-> TRUE, raised |-> FALSE]
  ELSE [df |-> resp.candles, calls |-> 1, notice |-> FALSE, raised |-> FALSE]

\* the record built at lines 115-121
ImbalanceResult(symbol, df, last_val, avg_val) ==
  [kind |-> "res",
   Symbol |-> symbol,
   LastValue |-> round_crore(last_val, 1),
   AvgValue |-> round_crore(avg_val.sum, avg_val.n),
   Close |-> df[Len(df)].close,
   PctMove |-> pct_move(df[Len(df)].close, df[Len(df) - 1].close)]

\* the row guard off by one
too_few_rows_lt5(df) == df = EmptyFrame \/ Len(df) < MinRows - 1

\* df.empty or len(df) < 6
too_few_rows(df) == df = EmptyFrame \/ Len(df) < MinRows

\* the part of check_imbalance_for_symbol after the fetch
evaluate(symbol, df, multiplier) ==
  IF too_few_rows(df) THEN NoResult
  ELSE LET value == value_column(df)
           avg_val == mean(SubSeq(value, 1, Len(value) - 1))
           last_val == value[Len(value)]
       IN  IF MeanIsNa(avg_val) \/ MeanIsZero(avg_val) THEN NoResult
           ELSE IF GreaterThanTimes(last_val, multiplier, avg_val)
                  THEN ImbalanceResult(symbol, df, last_val, avg_val)
           ELSE NoResult

\* check_imbalance_for_symbol: res is the return value; an exception raised
\* inside (there is no try here) leaves the function
check_imbalance_for_symbol(symbol, fyers_client, multiplier, resp) ==
  LET f == get_1min_candles(symbol, fyers_client, resp)
  IN  [res |-> IF f.raised THEN NoResult ELSE evaluate(symbol, f.df, multiplier),
       df |-> f.df, calls |-> f.calls, notice |-> f.notice, raised |-> f.raised]

\* ----------------------------------------------------- symbol parsing ----
\* Strings are sequences of one-character strings.
Whitespace == {" ", "\t", "\n"}
LowerCase == <<"a","b","c","d","e","f","g","h","i","j","k","l","m",
               "n","o","p","q","r","s","t","u","v","w","x","y","z">>
UpperCase == <<"A","B","C","D","E","F","G","H","I","J","K","L","M",
               "N","O","P","Q","R","S","T","U","V","W","X","Y","Z">>

\* str.split(","): scan left to right, closing a field at every comma
RECURSIVE split_scan(_, _, _)
split_scan(s, i, cur) ==
  IF i > Len(s) THEN <<cur>>
  ELSE IF s[i] = "," THEN <<cur>> \o split_scan(s, i + 1, <<>>)
  ELSE split_scan(s, i + 1, Append(cur, s[i]))

split(s) == split_scan(s, 1, <<>>)

RECURSIVE lstrip(_)
lstrip(s) ==
  IF s = <<>> THEN <<>>
  ELSE IF Head(s) \in Whitespace THEN lstrip(Tail(s)) ELSE s

RECURSIVE rstrip(_)
rstrip(s) ==
  IF s = <<>> THEN <<>>
  ELSE IF s[Len(s)] \in Whitespace THEN rstrip(SubSeq(s, 1, Len(s) - 1)) ELSE s

\* strip that only removes leading whitespace
strip_left_only(s) == lstrip(s)

\* str.strip()
strip(s) == rstrip(lstrip(s))

upper_char(c) ==
  IF \E k \in 1..26 : LowerCase[k] = c
    THEN UpperCase[CHOOSE k \in 1..26 : LowerCase[k] = c]
    ELSE c

\* str.upper()
upper(s) == [i \in 1..Len(s) |-> upper_char(s[i])]

\* [s.strip().upper() for s in fields if s.strip()]
RECURSIVE comprehension(_)
comprehension(fields) ==
  IF fields = <<>> THEN <<>>
  ELSE LET s == Head(fields)
       IN  IF strip(s) # <<>>
             THEN <<upper(strip(s))>> \o comprehension(Tail(fields))
             ELSE comprehension(Tail(fields))

\* symbols = [...] at line 126
parse_symbols(symbols_input) == comprehension(split(symbols_input))

\* ------------------------------------------------------------- state ----
VARIABLES
  pc,            \* position of the running script
  tick,          \* number of the current run (refresh tick)
  secrets,       \* st.secrets["fyers"]: client_id, secret_key, access_token, refresh_token
  access_token,  \* module variable access_token
  client,        \* module variable client
  symbols_input, \* content of the text area
  symbols,       \* parsed symbol list
  mult,          \* slider value
  idx,           \* symbols checked so far in the loop
  results,       \* module variable results
  displayed,     \* rows of the dataframe on screen, top to bottom
  widgets,       \* whether the input widgets were rendered in this run
  notices,       \* kinds of st.error / st.warning / st.info / st.write shown in this run
  refreshCalls,  \* POSTs to the refresh endpoint in this run
  log,           \* history: one entry per check_imbalance_for_symbol call of this run
  shownBefore,   \* history: symbols displayed by earlier runs
  arg,           \* argument of a direct call of a function
  out            \* what that call returned

vars == <<pc, tick, secrets, access_token, client, symbols_input, symbols, mult,
          idx, results, displayed, widgets, notices, refreshCalls, log,
          shownBefore, arg, out>>

scriptVars == <<tick, secrets, access_token, client, mult, idx, results,
                displayed, widgets, notices, refreshCalls, log, shownBefore>>

NoArg == [symbol |-> <<>>, client |-> None, mult |-> MultMin, resp |-> Fail("falsy")]
NoOut == [res |-> NoResult, df |-> EmptyFrame, calls |-> 0, notice |-> FALSE,
          raised |-> FALSE]

\* the script-level variables before anything ran
ScriptIdle ==
  /\ tick = 0
  /\ secrets = [client_id |-> None, secret_key |-> None,
                access_token |-> None, refresh_token |-> None]
  /\ access_token = None
  /\ client = None
  /\ mult = MultMin
  /\ idx = 0
  /\ results = <<>>
  /\ displayed = <<>>
  /\ widgets = FALSE
  /\ notices = {}
  /\ refreshCalls = 0
  /\ log = <<>>
  /\ shownBefore = {}

\* ------------------------- direct calls of check_imbalance_for_symbol ----
SeqsUpTo(S, n) == UNION {[1..k -> S] : k \in 0..n}

PriorCandles == {[close |-> c, volume |-> VolUnit] : c \in {NaN} \cup 0..MaxPriorClose}
LastCandles == {[close |-> c, volume |-> v] :
                  c \in {NaN} \cup 0..MaxLastClose,
                  v \in {NaN} \cup {k * VolUnit : k \in 0..MaxLastVol}}
SeriesSet == {<<>>} \cup
             {p \o <<l>> : p \in SeqsUpTo(PriorCandles, MaxLen - 1), l \in LastCandles}
CheckResponses == {Fail(k) : k \in FailKinds} \cup {Ok(s) : s \in SeriesSet}

InitCheck ==
  /\ ScriptIdle
  /\ pc = "call"
  /\ symbols_input = <<>>
  /\ symbols = <<>>
  /\ arg \in [symbol : {<<"A">>}, client : {None, "client"},
              mult : MultRange, resp : CheckResponses]
  /\ out = NoOut

CallCheck ==
  /\ pc = "call"
  /\ out' = check_imbalance_for_symbol(arg.symbol, arg.client, arg.mult, arg.resp)
  /\ pc' = "ret"
  /\ UNCHANGED <<scriptVars, symbols_input, symbols, arg>>

NextCheck == CallCheck
SpecCheck == InitCheck /\ [][NextCheck]_vars

\* ------------------------------------ direct runs of the symbol parser ----
Alphabet == {"a", "B", " ", ","}
InputStrings == SeqsUpTo(Alphabet, MaxStrLen)

InitParse ==
  /\ ScriptIdle
  /\ pc = "call"
  /\ symbols_input \in InputStrings
  /\ symbols = <<>>
  /\ arg = NoArg
  /\ out = NoOut

CallParse ==
  /\ pc = "call"
  /\ symbols' = parse_symbols(symbols_input)
  /\ pc' = "ret"
  /\ UNCHANGED <<scriptVars, symbols_input, arg, out>>

NextParse == CallParse
SpecParse == InitParse /\ [][NextParse]_vars

\* ------------------------------------------------------ the script ----
\* refresh_access_token: what requests.post / raise_for_status / r.json()
\* give back.  "raise" stands for any exception inside the try block.
RefreshTokens == {None, "", "TOKEN"}
RefreshResponses ==
  {[kind |-> "raise", top |-> None, nested |-> None]} \cup
  {[kind |-> "json", top |-> a, nested |-> b] : a \in RefreshTokens, b \in RefreshTokens}

\* refresh_access_token: access is the first element of the returned pair,
\* calls the number of POSTs, warned whether st.warning was shown
refresh_access_token(refresh_token, r) ==
  IF ~Truthy(refresh_token) THEN [access |-> None, calls |-> 0, warned |-> FALSE]
  ELSE IF r.kind = "raise" THEN [access |-> None, calls |-> 1, warned |-> TRUE]
  ELSE [access |-> IF Truthy(r.top) THEN r.top ELSE r.nested,
        calls |-> 1, warned |-> FALSE]

\* make_fyers_client
make_fyers_client(token) == "client"

\* a client built whether or not there is a token
client_for_always(token) == make_fyers_client(token)

\* client = None; if access_token: client = make_fyers_client(access_token)
client_for(token) == IF Truthy(token) THEN make_fyers_client(token) ELSE None

\* the list of the previous run kept
keep_results(old) == old

\* results = [] at line 140
new_results(old) == <<>>

\* the orders in which n rows can be arranged
IndexOrders(n) == {p \in [1..n -> 1..n] : \A i, j \in 1..n : p[i] = p[j] => i = j}

\* the sort with ascending=True
sort_values_ascending(rs) ==
  {[i \in 1..Len(rs) |-> rs[p[i]]] :
     p \in {q \in IndexOrders(Len(rs)) :
              \A i, j \in 1..Len(rs) :
                 i < j => rs[q[i]].LastValue <= rs[q[j]].LastValue}}

\* DataFrame(results).sort_values("Last Value", ascending=False): the default
\* sort is not stable, so rows with equal keys may come out in any order
sort_values(rs) ==
  {[i \in 1..Len(rs) |-> rs[p[i]]] :
     p \in {q \in IndexOrders(Len(rs)) :
              \A i, j \in 1..Len(rs) :
                 i < j => rs[q[i]].LastValue >= rs[q[j]].LastValue}}

SecretsSet == [client_id : {None, "APPID-100"}, secret_key : {"", "SECRET"},
               access_token : {None, "", "TOKEN"}, refresh_token : {None, "RTOKEN"}]

Flat(n) == [i \in 1..n |-> [close |-> 1, volume |-> VolUnit]]
Zeros(n) == [i \in 1..n |-> [close |-> 0, volume |-> VolUnit]]
Last(v) == [close |-> 1, volume |-> v * VolUnit]
TickLastVols == {3, 4, 5, 7}
TickSeries == {Flat(MinRows - 1) \o <<Last(v)>> : v \in TickLastVols} \cup
              {Flat(MinRows - 2) \o <<Last(7)>>, Zeros(MinRows - 1) \o <<Last(7)>>}
TickResponses == {Fail(k) : k \in FailKinds} \cup {Ok(s) : s \in TickSeries}

TickInputs == { <<>>,
                <<"b">>,
                <<"a", ",", "b">>,
                <<" ", "a", " ", ",", " ", ",", "b", ",", "a">> }

Init ==
  /\ pc = "secrets"
  /\ tick = 1
  /\ secrets \in SecretsSet
  /\ access_token = None
  /\ client = None
  /\ symbols_input = <<>>
  /\ symbols = <<>>
  /\ mult = MultMin
  /\ idx = 0
  /\ results = <<>>
  /\ displayed = <<>>
  /\ widgets = FALSE
  /\ notices = {}
  /\ refreshCalls = 0
  /\ log = <<>>
  /\ shownBefore = {}
  /\ arg = NoArg
  /\ out = NoOut

\* lines 21-30: read the secrets; st.stop() when an id or key is missing
ReadSecrets ==
  /\ pc = "secrets"
  /\ IF ~Truthy(secrets.client_id) \/ ~Truthy(secrets.secret_key)
       THEN /\ notices' = notices \cup {"error_credentials"}
            /\ pc' = "halted"
       ELSE /\ notices' = notices
            /\ pc' = "token"
  /\ UNCHANGED <<tick, secrets, access_token, client, symbols_input, symbols, mult,
                 idx, results, displayed, widgets, refreshCalls, log, shownBefore,
                 arg, out>>

\* lines 64-72: the stored token, or one refresh when there is none
TokenSetup ==
  /\ pc = "token"
  /\ IF ~Truthy(secrets.access_token) /\ Truthy(secrets.refresh_token)
       THEN \E r \in RefreshResponses :
              LET t == refresh_access_token(secrets.refresh_token, r)
              IN  /\ access_token' = t.access
                  /\ refreshCalls' = refreshCalls + t.calls
                  /\ notices' = notices
                       \cup (IF t.warned THEN {"warning_refresh_failed"} ELSE {})
                       \cup (IF Truthy(t.access) THEN {"info_refreshed"} ELSE {})
                       \cup (IF ~Truthy(t.access) THEN {"warning_no_token"} ELSE {})
       ELSE /\ access_token' = secrets.access_token
            /\ refreshCalls' = refreshCalls
            /\ notices' = notices
                 \cup (IF ~Truthy(secrets.access_token) THEN {"warning_no_token"} ELSE {})
  /\ pc' = "ui"
  /\ UNCHANGED <<tick, secrets, client, symbols_input, symbols, mult, idx, results,
                 displayed, widgets, log, shownBefore, arg, out>>

\* lines 125-131: the widgets; the user's text and slider value are read
RenderUI ==
  /\ pc = "ui"
  /\ \E text \in TickInputs, m \in MultRange :
       /\ symbols_input' = text
       /\ symbols' = parse_symbols(text)
       /\ mult' = m
  /\ widgets' = TRUE
  /\ pc' = "client"
  /\ UNCHANGED <<tick, secrets, access_token, client, idx, results, displayed,
                 notices, refreshCalls, log, shownBefore, arg, out>>

\* lines 134-141 and 154-155: build the client; without one, only a notice
MakeClient ==
  /\ pc = "client"
  /\ LET c == client_for(access_token)
     IN  /\ client' = c
         /\ IF c # None
              THEN /\ results' = new_results(results)
                   /\ idx' = 0
                   /\ notices' = notices
                   /\ pc' = "loop"
              ELSE /\ notices' = notices \cup {"info_no_token"}
                   /\ UNCHANGED <<results, idx>>
                   /\ pc' = "done"
  /\ UNCHANGED <<tick, secrets, access_token, symbols_input, symbols, mult,
                 displayed, widgets, refreshCalls, log, shownBefore, arg, out>>

\* lines 142-146: one iteration of the for loop; an exception that leaves
\* check_imbalance_for_symbol ends the run
LoopStep ==
  /\ pc = "loop"
  /\ idx < Len(symbols)
  /\ \E resp \in TickResponses :
       LET s == symbols[idx + 1]
           r == check_imbalance_for_symbol(s, client, mult, resp)
       IN  /\ log' = Append(log, [symbol |-> s, resp |-> resp, res |-> r.res,
                                  calls |-> r.calls, raised |-> r.raised])
           /\ notices' = notices \cup (IF r.notice THEN {"write_fetch_error"} ELSE {})
           /\ IF r.raised
                THEN /\ pc' = "crashed"
                     /\ UNCHANGED <<results, idx>>
                ELSE /\ results' = IF r.res # NoResult THEN Append(results, r.res)
                                                       ELSE results
                     /\ idx' = idx + 1
                     /\ pc' = "loop"
  /\ UNCHANGED <<tick, secrets, access_token, client, symbols_input, symbols, mult,
                 displayed, widgets, refreshCalls, shownBefore, arg, out>>

\* lines 147-153: after the loop, the sorted table or the "nothing" notice
Display ==
  /\ pc = "loop"
  /\ idx = Len(symbols)
  /\ IF results # <<>>
       THEN /\ displayed' \in sort_values(results)
            /\ notices' = notices \cup {"success_found"}
       ELSE /\ displayed' = <<>>
            /\ notices' = notices \cup {"info_none"}
  /\ pc' = "done"
  /\ UNCHANGED <<tick, secrets, access_token, client, symbols_input, symbols, mult,
                 idx, results, widgets, refreshCalls, log, shownBefore, arg, out>>

\* st_autorefresh (line 131) or a widget change: the script runs again from
\* its first line in a fresh namespace.  results is carried over so that the
\* rebinding at line 140 is what empties it.
Rerun ==
  /\ pc \in {"done", "crashed"}
  /\ tick < MaxTicks
  /\ tick' = tick + 1
  /\ pc' = "secrets"
  /\ access_token' = None
  /\ client' = None
  /\ symbols_input' = <<>>
  /\ symbols' = <<>>
  /\ mult' = MultMin
  /\ idx' = 0
  /\ displayed' = <<>>
  /\ widgets' = FALSE
  /\ notices' = {}
  /\ refreshCalls' = 0
  /\ log' = <<>>
  /\ shownBefore' = shownBefore \cup {displayed[i].Symbol : i \in 1..Len(displayed)}
  /\ UNCHANGED <<secrets, results, arg, out>>

Next ==
  \/ ReadSecrets
  \/ TokenSetup
  \/ RenderUI
  \/ MakeClient
  \/ LoopStep
  \/ Display
  \/ Rerun

Spec == Init /\ [][Next]_vars

\* the script runs to completion: a started loop is not abandoned
FairSpec == Spec /\ WF_vars(LoopStep) /\ WF_vars(Display)

\* ============================================================ claims ====
Range(f) == {f[i] : i \in DOMAIN f}
SeqToBag(sq) == [x \in Range(sq) |-> Cardinality({i \in DOMAIN sq : sq[i] = x})]

\* the candles before the last one whose traded value is not missing
PriorTerms(cs) ==
  {i \in 1..(Len(cs) - 1) : ~IsNaN(cs[i].close) /\ ~IsNaN(cs[i].volume)}

RECURSIVE TradedSum(_, _)
TradedSum(I, cs) ==
  IF I = {} THEN 0
  ELSE LET i == CHOOSE k \in I : TRUE
       IN  cs[i].close * cs[i].volume + TradedSum(I \ {i}, cs)

AvgDefinedNonZero(cs) == PriorTerms(cs) # {} /\ TradedSum(PriorTerms(cs), cs) # 0

\* last > m * avg, with avg = TradedSum / |PriorTerms|
LastExceeds(cs, m) ==
  LET l == cs[Len(cs)]
  IN  /\ ~IsNaN(l.close) /\ ~IsNaN(l.volume)
      /\ l.close * l.volume * Cardinality(PriorTerms(cs))
           > m * TradedSum(PriorTerms(cs), cs)

LastTies(cs, m) ==
  LET l == cs[Len(cs)]
  IN  /\ ~IsNaN(l.close) /\ ~IsNaN(l.volume)
      /\ l.close * l.volume * Cardinality(PriorTerms(cs))
           = m * TradedSum(PriorTerms(cs), cs)

Returned == pc = "ret" /\ arg.client # None /\ arg.resp.kind = "ok"

\* C1: for a series of at least 6 candles whose average traded value before
\* the last candle is defined and non-zero, check_imbalance_for_symbol
\* returns a result exactly when last > m * avg; a tie returns none.
C1_ResultIffExceeds ==
  (Returned /\ Len(arg.resp.candles) >= 6 /\ AvgDefinedNonZero(arg.resp.candles))
    => /\ (out.res # NoResult) <=> LastExceeds(arg.resp.candles, arg.mult)
       /\ LastTies(arg.resp.candles, arg.mult) => out.res = NoResult
       /\ out.res # NoResult => out.res.Symbol = arg.symbol

C1_Witness ==
  /\ Returned /\ Len(arg.resp.candles) >= 6 /\ AvgDefinedNonZero(arg.resp.candles)
  /\ LastExceeds(arg.resp.candles, arg.mult)
  /\ out.res # NoResult

\* C2: a series of fewer than 6 rows, the empty one included, gives no
\* result, whatever its values and the multiplier.
C2_ShortSeriesNoResult ==
  (pc = "ret" /\ arg.resp.kind = "ok" /\ Len(arg.resp.candles) < 6)
    => out.res = NoResult

C2_Witness ==
  /\ Returned /\ Len(arg.resp.candles) = 5
  /\ AvgDefinedNonZero(arg.resp.candles)
  /\ LastExceeds(arg.resp.candles, arg.mult)
  /\ out.res = NoResult

\* C3: when the average traded value before the last candle is zero or
\* undefined, the evaluator returns no result and raises nothing, for every
\* multiplier and last candle.
C3_DegenerateAverageNoResult ==
  (pc = "ret" /\ arg.resp.kind = "ok" /\ arg.resp.candles # <<>>
     /\ ~AvgDefinedNonZero(arg.resp.candles))
    => out.res = NoResult /\ ~out.raised

C3_Witness ==
  /\ Returned /\ Len(arg.resp.candles) >= 6
  /\ PriorTerms(arg.resp.candles) # {}
  /\ TradedSum(PriorTerms(arg.resp.candles), arg.resp.candles) = 0
  /\ arg.resp.candles[Len(arg.resp.candles)].close = 1
  /\ arg.resp.candles[Len(arg.resp.candles)].volume = MaxLastVol * VolUnit
  /\ out.res = NoResult /\ ~out.raised

\* C5: get_1min_candles lets no error out: without a client, or when the
\* history call raises, answers nothing, answers without 'candles' or answers
\* malformed candles, it returns an empty series; without a client it also
\* issues no request.
C5_FetchNeverRaises ==
  pc = "ret" =>
    /\ ~out.raised
    /\ (arg.client = None \/ arg.resp.kind \in FailKinds) => out.df = EmptyFrame
    /\ arg.client = None => out.calls = 0

C5_Witness ==
  /\ pc = "ret" /\ arg.client # None /\ arg.resp.kind = "malformed"
  /\ out.df = EmptyFrame /\ out.calls = 1 /\ out.notice /\ ~out.raised

\* ---- parsing, stated without the scan: by the positions of the commas ----
CommaPositions(s) == {i \in 1..Len(s) : s[i] = ","}

\* position of the k-th field boundary; 0 before the text, Len + 1 after it
Boundary(s, k) ==
  IF k = 0 THEN 0
  ELSE IF k > Cardinality(CommaPositions(s)) THEN Len(s) + 1
  ELSE CHOOSE i \in CommaPositions(s) :
         Cardinality({j \in CommaPositions(s) : j < i}) = k - 1

FieldsOf(s) ==
  [k \in 1..(Cardinality(CommaPositions(s)) + 1) |->
     SubSeq(s, Boundary(s, k - 1) + 1, Boundary(s, k) - 1)]

Trimmed(f) ==
  LET ink == {i \in 1..Len(f) : f[i] \notin Whitespace}
  IN  IF ink = {} THEN <<>>
      ELSE SubSeq(f, CHOOSE i \in ink : \A j \in ink : i <= j,
                     CHOOSE i \in ink : \A j \in ink : i >= j)

IsLower(c) == \E k \in 1..26 : LowerCase[k] = c
UpperOf(c) == IF IsLower(c) THEN UpperCase[CHOOSE k \in 1..26 : LowerCase[k] = c] ELSE c
NonEmpty(f) == f # <<>>

ExpectedSymbols(s) ==
  LET t == [k \in DOMAIN FieldsOf(s) |-> Trimmed(FieldsOf(s)[k])]
      kept == SelectSeq(t, NonEmpty)
  IN  [k \in 1..Len(kept) |-> [i \in 1..Len(kept[k]) |-> UpperOf(kept[k][i])]]

ExampleInput ==
  <<"r","e","l","i","a","n","c","e",","," ","t","c","s"," ",","," "," ",
    "h","d","f","c","b","a","n","k">>
ExampleSymbols ==
  << <<"R","E","L","I","A","N","C","E">>, <<"T","C","S">>,
     <<"H","D","F","C","B","A","N","K">> >>

\* C7: the symbol list is the comma-separated entries of the input in input
\* order, each trimmed of surrounding whitespace and upper-cased, the entries
\* empty after trimming dropped and nothing else dropped, added or reordered;
\* "reliance, tcs ,  hdfcbank" gives RELIANCE, TCS, HDFCBANK.
C7_ParseSymbols ==
  pc = "ret" =>
    /\ symbols = ExpectedSymbols(symbols_input)
    /\ parse_symbols(ExampleInput) = ExampleSymbols

C7_Witness ==
  /\ pc = "ret"
  /\ symbols_input = <<"a", " ", ",", ",", "a">>
  /\ symbols = << <<"A">>, <<"A">> >>

\* ------------------------------------------------------------ a run ----
CredentialsOk == Truthy(secrets.client_id) /\ Truthy(secrets.secret_key)
IsResult(r) == r # NoResult
LogResults == [i \in 1..Len(log) |-> log[i].res]
Requests == {i \in 1..Len(log) : log[i].calls > 0}

\* C4: at the end of a tick that produced at least one result, the table
\* holds exactly the non-null results returned for the symbols of the list
\* in that tick, and each row's last traded value is >= the next row's.
C4_DisplayedSortedExact ==
  (pc = "done" /\ \E i \in 1..Len(log) : log[i].res # NoResult)
    => /\ SeqToBag(displayed) = SeqToBag(SelectSeq(LogResults, IsResult))
       /\ Len(displayed) = Len(SelectSeq(LogResults, IsResult))
       /\ \A i \in 1..(Len(displayed) - 1) :
            displayed[i].LastValue >= displayed[i + 1].LastValue

C4_Witness ==
  /\ pc = "done"
  /\ Len(displayed) = 2
  /\ Len(log) = 3
  /\ displayed[1].LastValue > displayed[2].LastValue
  /\ displayed[1] = log[3].res
  /\ displayed[2] = log[1].res

\* C6: within a tick a fetch or parse failure for one symbol does not stop
\* the loop: the symbol gives no result, and the tick goes on to the display
\* step having checked every symbol of the list in input order.
C6_LoopReachesDisplay ==
  \A t \in 1..MaxTicks :
    (pc = "loop" /\ tick = t)
      ~> (/\ pc = "done" /\ tick = t
          /\ [i \in 1..Len(log) |-> log[i].symbol] = symbols
          /\ \A i \in 1..Len(log) :
               log[i].resp.kind \in FailKinds => log[i].res = NoResult)

C6_Witness ==
  /\ pc = "done"
  /\ Len(log) = 3
  /\ log[1].resp.kind = "raise"
  /\ log[2].resp.kind = "malformed"
  /\ log[3].res # NoResult
  /\ Len(displayed) = 1

\* C8: no history request is issued unless client_id, secret_key and a
\* non-empty token (stored, or obtained by a refresh) are there.  With an id
\* or key missing the run halts before any network call; with no token, or a
\* failed refresh, the run does not halt: the widgets are rendered and no
\* request is issued.
C8_NoQueryWithoutCredentials ==
  /\ Requests # {} =>
       /\ CredentialsOk
       /\ Truthy(access_token)
       /\ access_token = secrets.access_token \/ refreshCalls = 1
  /\ ~CredentialsOk =>
       /\ pc \in {"secrets", "halted"}
       /\ refreshCalls = 0 /\ log = <<>> /\ ~widgets
  /\ CredentialsOk => pc \notin {"halted", "crashed"}
  /\ (CredentialsOk /\ pc \in {"client", "loop", "done"} /\ ~Truthy(access_token)) =>
       /\ widgets
       /\ log = <<>>
       /\ pc \in {"client", "done"}
       /\ pc = "done" => "info_no_token" \in notices

C8_Witness ==
  /\ pc = "done"
  /\ CredentialsOk
  /\ "warning_refresh_failed" \in notices
  /\ "info_no_token" \in notices
  /\ refreshCalls = 1
  /\ widgets
  /\ log = <<>>

\* what a run over these symbols, this multiplier and these responses shows
MatchesOf(syms, m, resps) ==
  SelectSeq([i \in 1..Len(syms) |->
               check_imbalance_for_symbol(syms[i], "client", m, resps[i]).res],
            IsResult)

Shown == {displayed[i].Symbol : i \in 1..Len(displayed)}

\* C9: nothing is kept from one tick to the next: the results displayed
\* after a tick are determined by that tick's symbol list, multiplier and
\* fetched candles alone, and a symbol displayed by an earlier tick that does
\* not match on this tick's data is not displayed.
C9_NoStateAcrossTicks ==
  pc = "done" =>
    IF client = None THEN displayed = <<>>
    ELSE /\ Len(log) = Len(symbols)
         /\ LET now == MatchesOf(symbols, mult, [i \in 1..Len(log) |-> log[i].resp])
            IN  /\ SeqToBag(displayed) = SeqToBag(now)
                /\ \A s \in shownBefore :
                     (\A i \in 1..Len(now) : now[i].Symbol # s) => s \notin Shown

C9_Witness ==
  /\ pc = "done"
  /\ tick >= 2
  /\ displayed # <<>>
  /\ \E s \in shownBefore :
       /\ \E i \in 1..Len(symbols) : symbols[i] = s
       /\ s \notin Shown

\* C10: nothing is retried within a tick: each entry of the symbol list gets
\* at most one history request (exactly one when there is a client), whether
\* it succeeds or fails, and a run posts at most one token refresh, and only
\* when there is no stored access token and there is a refresh token.
C10_NoRetry ==
  /\ Len(log) <= Len(symbols)
  /\ \A i \in 1..Len(log) : log[i].calls <= 1
  /\ \A i \in 1..Len(log) : client # None => log[i].calls = 1
  /\ (pc = "done" /\ client # None) => Len(log) = Len(symbols)
  /\ (pc = "done" /\ client = None) => log = <<>>
  /\ refreshCalls <= 1
  /\ refreshCalls = 1 =>
       ~Truthy(secrets.access_token) /\ Truthy(secrets.refresh_token)

C10_Witness ==
  /\ pc = "done"
  /\ refreshCalls = 1
  /\ Len(symbols) = 3
  /\ Len(log) = 3
  /\ log[1].resp.kind = "raise" /\ log[1].calls = 1
  /\ log[2].resp.kind = "ok" /\ log[2].calls = 1
  /\ log[3].symbol = log[1].symbol
====
